---- MODULE Spec2Model ----
(***************************************************************************)
(* Model of src/src/main.rs: the coordinate conversion tool between WGS84  *)
(* (lon, lat), UTM and the Maxar Grid System (MGS).                        *)
(*                                                                         *)
(* Numbers.  An f64 is a record [k, v]: k = "fin" with an integer v, or    *)
(* k = "nan", or k = "inf" with v = 1 / -1 for the sign.  Longitudes and   *)
(* latitudes count micro-degrees, eastings and northings count metres.     *)
(* Values in 5 km grid cells (the x /= 5000.0 of the source) are kept as   *)
(* their numerator in metres, so no fraction is lost before the cast.      *)
(***************************************************************************)
EXTENDS Integers, Sequences, FiniteSets, TLC

VARIABLES pc, argv, mgs, utm, ll, result, calls, stdout, stderr, status, trail

vars == <<pc, argv, mgs, utm, ll, result, calls, stdout, stderr, status, trail>>

(***************************************************************************)
(* Program constants                                                       *)
(***************************************************************************)
FalseEasting == 500000
FalseNorthing == 10000000
CellSize == 5000
GridHalf == 2048
KeyLen == 12
I16Max == 32767
I16Min == -32768
U8Max == 255

(***************************************************************************)
(* Bounds of the checked input sets                                        *)
(***************************************************************************)
\* number of leading and of trailing key digits that range over 0..3
KeyVary == 2

(***************************************************************************)
(* f64 values                                                              *)
(***************************************************************************)
F(n) == [k |-> "fin", v |-> n]
NaN == [k |-> "nan", v |-> 0]
PInf == [k |-> "inf", v |-> 1]
NInf == [k |-> "inf", v |-> -1]

Deg(d) == d * 1000000

\* f + c for a finite constant c
FAdd(f, c) == IF f.k = "fin" THEN F(f.v + c) ELSE f

\* -f
FNeg(f) == IF f.k = "nan" THEN f ELSE [k |-> f.k, v |-> -f.v]

\* f < 0.0 : false for NaN
FLtZero(f) == f.k # "nan" /\ f.v < 0

\* lo <= f <= hi, the RangeInclusive::contains of the source: false for NaN
FContains(lo, hi, f) == f.k = "fin" /\ lo <= f.v /\ f.v <= hi

\* integer quotient rounded toward zero
TruncDiv(n, d) == IF n >= 0 THEN n \div d ELSE -((-n) \div d)

Clamp(lo, hi, n) == IF n < lo THEN lo ELSE IF n > hi THEN hi ELSE n

\* (f / den) as i16 : toward zero, saturating, NaN gives 0
AsI16(f, den) ==
    CASE f.k = "nan" -> 0
      [] f.k = "inf" -> IF f.v > 0 THEN I16Max ELSE I16Min
      [] OTHER -> Clamp(I16Min, I16Max, TruncDiv(f.v, den))

\* (f / den) as u8
AsU8(f, den) ==
    CASE f.k = "nan" -> 0
      [] f.k = "inf" -> IF f.v > 0 THEN U8Max ELSE 0
      [] OTHER -> Clamp(0, U8Max, TruncDiv(f.v, den))

\* f as u64: toward zero, saturating, NaN gives 0; u64::MAX is kept symbolic
AsU64(f) ==
    CASE f.k = "nan" -> [k |-> "int", v |-> 0]
      [] f.k = "inf" -> IF f.v > 0 THEN [k |-> "u64::MAX", v |-> 0] ELSE [k |-> "int", v |-> 0]
      [] OTHER -> [k |-> "int", v |-> IF f.v < 0 THEN 0 ELSE f.v]

\* f.floor() of a value kept as numerator over den
FFloorDiv(f, den) == IF f.k = "fin" THEN F((f.v \div den) * den) ELSE f

(***************************************************************************)
(* i16 bit operations                                                      *)
(***************************************************************************)
ToU16(n) == IF n < 0 THEN n + 65536 ELSE n
FromU16(n) == IF n >= 32768 THEN n - 65536 ELSE n

RECURSIVE AndBits(_, _, _)
AndBits(a, b, w) ==
    IF w = 0 THEN 0
    ELSE (IF a % 2 = 1 /\ b % 2 = 1 THEN 1 ELSE 0) + 2 * AndBits(a \div 2, b \div 2, w - 1)

RECURSIVE OrBits(_, _, _)
OrBits(a, b, w) ==
    IF w = 0 THEN 0
    ELSE (IF a % 2 = 1 \/ b % 2 = 1 THEN 1 ELSE 0) + 2 * OrBits(a \div 2, b \div 2, w - 1)

\* a & b and a | b on i16
BitAnd(a, b) == FromU16(AndBits(ToU16(a), ToU16(b), 16))
BitOr(a, b) == FromU16(OrBits(ToU16(a), ToU16(b), 16))

\* mask = 1 << (11 - z) for the 0-based position z
Mask(z) == 2^(KeyLen - 1 - z)

(***************************************************************************)
(* Hemisphere                                                              *)
(***************************************************************************)
from_lat(lat) == IF FLtZero(lat) THEN "South" ELSE "North"

from_char(letter) ==
    CASE letter = "N" -> [ok |-> TRUE, hemi |-> "North"]
      [] letter = "S" -> [ok |-> TRUE, hemi |-> "South"]
      [] OTHER -> [ok |-> FALSE, hemi |-> "North"]

as_str(hemi) == IF hemi = "North" THEN "N" ELSE "S"

\* z = (((lon + 180.0) / 6.0).floor() + 1.0) as u8, the quotient kept as its
\* numerator over 6 degrees
lonlat_to_utm_zone(lon, lat) ==
    [zone |-> AsU8(FAdd(FFloorDiv(FAdd(lon, Deg(180)), Deg(6)), Deg(6)), Deg(6)),
     hemi |-> from_lat(lat)]

(***************************************************************************)
(* LonLatCoord                                                             *)
(***************************************************************************)
\* mutant: the upper ends of both ranges excluded
LonLatCoord_new_Exclusive(longitude, latitude) ==
    IF ~FContains(Deg(-180), Deg(180) - 1, longitude) \/ ~FContains(Deg(-90), Deg(90) - 1, latitude)
    THEN [ok |-> FALSE, lon |-> longitude, lat |-> latitude]
    ELSE [ok |-> TRUE, lon |-> longitude, lat |-> latitude]

LonLatCoord_new(longitude, latitude) ==
    IF ~FContains(Deg(-180), Deg(180), longitude) \/ ~FContains(Deg(-90), Deg(90), latitude)
    THEN [ok |-> FALSE, lon |-> longitude, lat |-> latitude]
    ELSE [ok |-> TRUE, lon |-> longitude, lat |-> latitude]

(***************************************************************************)
(* MGSCoord <-> UTMCoord                                                   *)
(***************************************************************************)
\* mutant: the weights of the two axes exchanged
EncodeDigit_Swapped(ix, iy, z) ==
    (IF BitAnd(ix, Mask(z)) > 0 THEN 2 ELSE 0) + (IF BitAnd(iy, Mask(z)) > 0 THEN 1 ELSE 0)

\* the digit the encoder loop leaves at 0-based position z
EncodeDigit(ix, iy, z) ==
    (IF BitAnd(ix, Mask(z)) > 0 THEN 1 ELSE 0) + (IF BitAnd(iy, Mask(z)) > 0 THEN 2 ELSE 0)

\* impl From<&UTMCoord> for MGSCoord
UtmToMgs(source) ==
    LET x == FAdd(source.x, -FalseEasting)
        y == IF source.hemi = "South" THEN FAdd(source.y, -FalseNorthing) ELSE source.y
        ix == AsI16(FAdd(x, GridHalf * CellSize), CellSize)
        iy == AsI16(FAdd(FNeg(y), GridHalf * CellSize), CellSize)
    IN [t |-> "mgs", zone |-> source.zone,
        key |-> [p \in 1..KeyLen |-> EncodeDigit(ix, iy, p - 1)]]

\* mutant: the digit 3 sets the bit of ix alone
RECURSIVE DecodeLoop_Three(_, _, _, _)
DecodeLoop_Three(key, z, ix, iy) ==
    IF z = KeyLen THEN [ok |-> TRUE, ix |-> ix, iy |-> iy]
    ELSE LET c == key[z + 1]
             mask == Mask(z)
         IN CASE c = 0 -> DecodeLoop_Three(key, z + 1, ix, iy)
              [] c = 1 -> DecodeLoop_Three(key, z + 1, BitOr(ix, mask), iy)
              [] c = 2 -> DecodeLoop_Three(key, z + 1, ix, BitOr(iy, mask))
              [] c = 3 -> DecodeLoop_Three(key, z + 1, BitOr(ix, mask), iy)
              [] OTHER -> [ok |-> FALSE, ix |-> ix, iy |-> iy]

\* the decoder loop over key positions z..11: [ok, ix, iy]
RECURSIVE DecodeLoop(_, _, _, _)
DecodeLoop(key, z, ix, iy) ==
    IF z = KeyLen THEN [ok |-> TRUE, ix |-> ix, iy |-> iy]
    ELSE LET c == key[z + 1]
             mask == Mask(z)
         IN CASE c = 0 -> DecodeLoop(key, z + 1, ix, iy)
              [] c = 1 -> DecodeLoop(key, z + 1, BitOr(ix, mask), iy)
              [] c = 2 -> DecodeLoop(key, z + 1, ix, BitOr(iy, mask))
              [] c = 3 -> DecodeLoop(key, z + 1, BitOr(ix, mask), BitOr(iy, mask))
              [] OTHER -> [ok |-> FALSE, ix |-> ix, iy |-> iy]

\* mutant: the false northing is not added back south of the equator
MgsToUtm_NoFalseNorthing(source) ==
    LET r == DecodeLoop(source.key, 0, 0, 0)
        x0 == r.ix - GridHalf
        y0 == GridHalf - r.iy
    IN IF ~r.ok THEN [t |-> "panic"]
       ELSE [t |-> "utm", zone |-> source.zone, hemi |-> from_lat(F(y0)),
             x |-> F(x0 * CellSize + FalseEasting), y |-> F(y0 * CellSize)]

\* impl From<&MGSCoord> for UTMCoord; t = "panic" is the panic!() of the loop
MgsToUtm(source) ==
    LET r == DecodeLoop(source.key, 0, 0, 0)
        x0 == r.ix - GridHalf
        y0 == GridHalf - r.iy
        hemi == from_lat(F(y0))
        x1 == x0 * CellSize + FalseEasting
        y1 == y0 * CellSize
        y2 == IF y1 < 0 THEN y1 + FalseNorthing ELSE y1
    IN IF ~r.ok THEN [t |-> "panic"]
       ELSE [t |-> "utm", zone |-> source.zone, hemi |-> hemi, x |-> F(x1), y |-> F(y2)]

(***************************************************************************)
(* Input values shared by the checked specifications                       *)
(***************************************************************************)
\* the key of the help text's example, and a key whose point is south of the
\* equator
ExampleKey == <<0, 3, 3, 1, 1, 3, 1, 3, 1, 3, 1, 2>>
BoundaryKey == <<3, 2, 2, 0, 2, 1, 0, 2, 2, 2, 0, 2>>

LonInputs ==
    {NaN, PInf, NInf, F(0), F(Deg(-180)), F(Deg(-180) - 1), F(Deg(180)), F(Deg(180) + 1),
     F(Deg(180) - 1), F(Deg(-174)), F(Deg(-174) - 1), F(-99093580), F(Deg(200))}

LatInputs ==
    {NaN, PInf, NInf, F(0), F(-1), F(Deg(-90)), F(Deg(-90) - 1), F(Deg(90)), F(Deg(90) + 1),
     F(19296759)}

(***************************************************************************)
(* Strings: a string is a sequence of characters, a character a one-       *)
(* character string; "U+00E9" stands for a two-byte character.             *)
(***************************************************************************)
Digits10 == <<"0", "1", "2", "3", "4", "5", "6", "7", "8", "9">>

\* char::to_digit(10)
to_digit(c) ==
    IF \E i \in 1..10 : Digits10[i] = c
    THEN [ok |-> TRUE, d |-> (CHOOSE i \in 0..9 : Digits10[i + 1] = c)]
    ELSE [ok |-> FALSE, d |-> 0]

len_utf8(c) == IF c = "U+00E9" THEN 2 ELSE 1

\* str::len(): the length in bytes
RECURSIVE str_len(_)
str_len(s) == IF s = <<>> THEN 0 ELSE len_utf8(Head(s)) + str_len(Tail(s))

\* str::split_once('/')
split_once(s) ==
    IF \E i \in 1..Len(s) : s[i] = "/"
    THEN LET i == CHOOSE j \in 1..Len(s) : s[j] = "/" /\ \A h \in 1..(j - 1) : s[h] # "/"
         IN [ok |-> TRUE, z |-> SubSeq(s, 1, i - 1), c |-> SubSeq(s, i + 1, Len(s))]
    ELSE [ok |-> FALSE, z |-> <<>>, c |-> <<>>]

RECURSIVE DecimalValue(_, _)
DecimalValue(s, acc) ==
    IF s = <<>> THEN acc ELSE DecimalValue(Tail(s), 10 * acc + to_digit(Head(s)).d)

\* str::parse::<u8>()
parse_u8(s) ==
    LET body == IF s # <<>> /\ Head(s) = "+" THEN Tail(s) ELSE s
    IN IF body = <<>> \/ \E i \in 1..Len(body) : ~to_digit(body[i]).ok
       THEN [ok |-> FALSE, n |-> 0]
       ELSE IF DecimalValue(body, 0) > U8Max THEN [ok |-> FALSE, n |-> 0]
       ELSE [ok |-> TRUE, n |-> DecimalValue(body, 0)]

\* str::parse::<f64>() of an argument: a "num" argument is text that denotes
\* the f64 it carries ("NaN" and "inf" parse too), any other text is rejected
parse_f64(arg) == IF arg.a = "num" THEN [ok |-> TRUE, f |-> arg.f] ELSE [ok |-> FALSE, f |-> NaN]

\* MGSCoord::from_u8_and_str; t = "panic" is the expect() on a character that
\* is no decimal digit
from_u8_and_str(zone, key_string) ==
    IF \E i \in 1..Len(key_string) : ~to_digit(key_string[i]).ok
    THEN [t |-> "panic"]
    ELSE [t |-> "mgs", zone |-> zone,
          key |-> [p \in 1..KeyLen |->
                     IF p <= Len(key_string) THEN to_digit(key_string[p]).d ELSE 0]]

\* MGSCoord::key_to_string
key_to_string(key) == [p \in 1..KeyLen |-> Digits10[key[p] + 1]]

\* format!("{:.5}", f) of a finite value in micro-degrees: the count of 1e-5
\* degrees nearest to it
Fmt5(f) ==
    LET q == f.v \div 10
        r == f.v % 10
    IN IF r > 5 \/ (r = 5 /\ q % 2 = 1) THEN q + 1 ELSE q

(***************************************************************************)
(* Conversions through the projection library.  The library is outside the *)
(* repository: whether it builds a transform, whether it converts, and the *)
(* point it returns are choices of the environment.                        *)
(***************************************************************************)
\* mutant: the zone of the UTM coordinate read from the input is kept
LonLatToUtm_InputZone(source, xy) ==
    LET zh == lonlat_to_utm_zone(source.lon, source.lat)
    IN [t |-> "utm", zone |-> IF utm.t = "utm" THEN utm.zone ELSE zh.zone,
        hemi |-> zh.hemi, x |-> xy.x, y |-> xy.y]

\* impl From<&LonLatCoord> for UTMCoord, given the point proj returned
LonLatToUtm(source, xy) ==
    LET zh == lonlat_to_utm_zone(source.lon, source.lat)
    IN [t |-> "utm", zone |-> zh.zone, hemi |-> zh.hemi, x |-> xy.x, y |-> xy.y]

\* the tail of impl From<&UTMCoord> for LonLatCoord, given the point proj returned
UtmToLonLat(lonlat) ==
    LET r == LonLatCoord_new(lonlat.lon, lonlat.lat)
    IN IF r.ok THEN [t |-> "ll", lon |-> r.lon, lat |-> r.lat] ELSE [t |-> "panic"]

\* the String make_message formats
MessageText(l, u, m) ==
    [lon |-> Fmt5(l.lon), lat |-> Fmt5(l.lat),
     utm_zone |-> u.zone, utm_hemi |-> as_str(u.hemi), utm_x |-> AsU64(u.x), utm_y |-> AsU64(u.y),
     mgs_zone |-> m.zone, mgs_key |-> key_to_string(m.key)]

\* make_message, given the point proj returned
make_message(l, xy) ==
    LET u == LonLatToUtm(l, xy)
        m == UtmToMgs(u)
    IN [t |-> "ok", ll |-> l, utm |-> u, mgs |-> m, text |-> MessageText(l, u, m)]

(***************************************************************************)
(* The program's inputs                                                    *)
(***************************************************************************)
Str(s) == [a |-> "str", s |-> s]
Num(f) == [a |-> "num", f |-> f]
Junk == [a |-> "junk"]
HelpFlag == [a |-> "help"]

ZoneTexts == {<<"1", "4">>, <<"4", "7">>, <<"+", "7">>, <<"2", "5", "6">>, <<"x", "4">>, <<>>}

KeyText(key) == [p \in 1..Len(key) |-> Digits10[key[p] + 1]]

GoodKeyTexts == {KeyText(ExampleKey), KeyText(BoundaryKey)}

\* 11 and 13 digits; a letter; the digits 4 and 9; a two-byte character among
\* 12 bytes; a slash
BadKeyTexts ==
    {SubSeq(KeyText(ExampleKey), 1, KeyLen - 1),
     KeyText(ExampleKey) \o <<"0">>,
     [KeyText(ExampleKey) EXCEPT ![KeyLen] = "a"],
     [KeyText(ExampleKey) EXCEPT ![KeyLen] = "4"],
     [KeyText(ExampleKey) EXCEPT ![1] = "9"],
     SubSeq(KeyText(ExampleKey), 1, KeyLen - 2) \o <<"U+00E9">>,
     [KeyText(ExampleKey) EXCEPT ![3] = "/"]}

MgsArgs ==
    {Str(z \o <<"/">> \o k) : z \in ZoneTexts, k \in GoodKeyTexts \cup BadKeyTexts}
        \cup {Str(<<"1", "4">> \o KeyText(ExampleKey)), Junk}

LonArgs == {Num(f) : f \in LonInputs} \cup {Junk}
LatArgs == {Num(f) : f \in LatInputs} \cup {Junk}

UtmZoneArgs ==
    {Str(s) : s \in {<<"1", "4", "N">>, <<"1", "4", "S">>, <<"1", "4">>, <<"7">>, <<"N">>, <<>>,
                     <<"1", "2", "3", "4">>, <<"2", "5", "5">>, <<"4", "x">>, <<"6", "1", "S">>}}
EastingArgs == {Num(F(490168)), Num(F(-1)), Num(NaN), Junk}
NorthingArgs == {Num(F(2133666)), Num(PInf), Junk}

ArgvInputs ==
    {<<a>> : a \in MgsArgs}
        \cup {<<a, b>> : a \in LonArgs, b \in LatArgs}
        \cup {<<a, b, c>> : a \in UtmZoneArgs, b \in EastingArgs, c \in NorthingArgs}
        \cup {<<>>, <<Junk, Junk, Junk, Junk>>, <<HelpFlag>>, <<Num(F(0)), HelpFlag>>,
              <<HelpFlag, Junk, Junk, Junk>>}

\* points proj may return for UTM -> lon/lat
ProjLonLats ==
    {[lon |-> F(a), lat |-> F(b)] :
        a \in {-99093580, Deg(102) + 613, Deg(-174) - 1, Deg(180), Deg(180) + 1},
        b \in {19296759, -33000000}}
        \cup {[lon |-> NaN, lat |-> NaN], [lon |-> F(0), lat |-> F(Deg(90) + 1)]}

\* points proj may return for lon/lat -> UTM
ProjUtms ==
    {[x |-> F(490168), y |-> F(2133666)], [x |-> F(166021), y |-> F(0)],
     [x |-> F(500000), y |-> F(6348165)], [x |-> F(833978), y |-> F(9999999)],
     [x |-> PInf, y |-> PInf]}

(***************************************************************************)
(* The program (Spec)                                                      *)
(***************************************************************************)
None == [t |-> "none"]

Init ==
    /\ pc = "main" /\ argv \in ArgvInputs
    /\ mgs = None /\ utm = None /\ ll = None /\ result = None
    /\ calls = <<>> /\ stdout = <<>> /\ stderr = <<>> /\ status = -1
    /\ trail = <<>>

Err(msg) == [t |-> "err", msg |-> msg]

\* a panic!(): the message goes to stderr and the process ends with status 101
Panic(msg) ==
    /\ pc' = "panicked"
    /\ stderr' = Append(stderr, msg)
    /\ status' = 101

\* main: --help anywhere among the arguments
Help ==
    /\ pc = "main"
    /\ \E i \in 1..Len(argv) : argv[i].a = "help"
    /\ pc' = "done"
    /\ stderr' = Append(stderr, "help")
    /\ status' = 0
    /\ UNCHANGED <<argv, mgs, utm, ll, result, calls, stdout, trail>>

\* main: an argument count other than 1, 2 or 3
BadArgCount ==
    /\ pc = "main"
    /\ \A i \in 1..Len(argv) : argv[i].a # "help"
    /\ Len(argv) \notin {1, 2, 3}
    /\ result' = Err("argument count")
    /\ pc' = "report"
    /\ UNCHANGED <<argv, mgs, utm, ll, calls, stdout, stderr, status, trail>>

\* from_mgs up to the construction of the MGSCoord
FromMgs ==
    /\ pc = "main"
    /\ \A i \in 1..Len(argv) : argv[i].a # "help"
    /\ Len(argv) = 1
    /\ LET sp == IF argv[1].a = "str" THEN split_once(argv[1].s) ELSE split_once(<<>>)
           zone == parse_u8(sp.z)
           m == from_u8_and_str(zone.n, sp.c)
       IN IF ~sp.ok
          THEN /\ result' = Err("no slash") /\ pc' = "report"
               /\ UNCHANGED <<mgs, calls, stderr, status>>
          ELSE IF ~zone.ok
          THEN /\ result' = Err("zone") /\ pc' = "report"
               /\ UNCHANGED <<mgs, calls, stderr, status>>
          ELSE IF str_len(sp.c) # KeyLen
          THEN /\ result' = Err("quadkey length") /\ pc' = "report"
               /\ UNCHANGED <<mgs, calls, stderr, status>>
          ELSE IF m.t = "panic"
          THEN /\ Panic("Quadkey digit not in 0..3!")
               /\ calls' = Append(calls, "from_u8_and_str")
               /\ UNCHANGED <<mgs, result>>
          ELSE /\ mgs' = m /\ pc' = "mgs_to_utm"
               /\ calls' = Append(calls, "from_u8_and_str")
               /\ UNCHANGED <<result, stderr, status>>
    /\ UNCHANGED <<argv, utm, ll, stdout, trail>>

\* from_mgs: UTMCoord::from(&mgs)
FromMgsDecode ==
    /\ pc = "mgs_to_utm"
    /\ calls' = Append(calls, "mgs_to_utm")
    /\ LET u == MgsToUtm(mgs)
       IN IF u.t = "panic"
          THEN Panic("Quadkey digit not in 0..3!") /\ UNCHANGED utm
          ELSE utm' = u /\ pc' = "utm_to_ll" /\ UNCHANGED <<stderr, status>>
    /\ UNCHANGED <<argv, mgs, ll, result, stdout, trail>>

\* from_utm up to UTMCoord::new
FromUtm ==
    /\ pc = "main"
    /\ \A i \in 1..Len(argv) : argv[i].a # "help"
    /\ Len(argv) = 3
    /\ LET zs == IF argv[1].a = "str" THEN argv[1].s ELSE <<"?", "?", "?", "?">>
           last == zs[Len(zs)]
           suffixed == last \in {"N", "S"}
           zone == IF suffixed THEN parse_u8(SubSeq(zs, 1, Len(zs) - 1)) ELSE parse_u8(zs)
           hemi == IF suffixed THEN from_char(last).hemi ELSE "North"
           x == parse_f64(argv[2])
           y == parse_f64(argv[3])
       IN IF str_len(zs) \notin 1..3 \/ ~zone.ok \/ ~x.ok \/ ~y.ok
          THEN /\ result' = Err(IF str_len(zs) \notin 1..3 THEN "zone length"
                                ELSE IF ~zone.ok THEN "zone"
                                ELSE IF ~x.ok THEN "easting" ELSE "northing")
               /\ pc' = "report" /\ UNCHANGED utm
          ELSE /\ utm' = [t |-> "utm", zone |-> zone.n, hemi |-> hemi, x |-> x.f, y |-> y.f]
               /\ pc' = "utm_to_ll" /\ UNCHANGED result
    /\ UNCHANGED <<argv, mgs, ll, calls, stdout, stderr, status, trail>>

\* from_mgs, from_utm: LonLatCoord::from(&utm)
FromUtmToLonLat ==
    /\ pc = "utm_to_ll"
    /\ calls' = Append(calls, "utm_to_ll")
    /\ \/ Panic("Proj failed to make a transformer") /\ UNCHANGED ll
       \/ Panic("Proj failed to convert") /\ UNCHANGED ll
       \/ \E p \in ProjLonLats :
            LET l == UtmToLonLat(p)
            IN IF l.t = "panic"
               THEN Panic("Lon/lat out of bounds") /\ UNCHANGED ll
               ELSE ll' = l /\ pc' = "make_message" /\ UNCHANGED <<stderr, status>>
    /\ UNCHANGED <<argv, mgs, utm, result, stdout, trail>>

\* from_ll up to the call of make_message
FromLl ==
    /\ pc = "main"
    /\ \A i \in 1..Len(argv) : argv[i].a # "help"
    /\ Len(argv) = 2
    /\ LET lon == parse_f64(argv[1])
           lat == parse_f64(argv[2])
           r == LonLatCoord_new(lon.f, lat.f)
       IN IF ~lon.ok \/ ~lat.ok
          THEN /\ result' = Err(IF ~lon.ok THEN "longitude not numeric" ELSE "latitude not numeric")
               /\ pc' = "report" /\ UNCHANGED ll
          ELSE IF ~r.ok
          THEN /\ result' = Err("not geographically sensible") /\ pc' = "report" /\ UNCHANGED ll
          ELSE /\ ll' = [t |-> "ll", lon |-> r.lon, lat |-> r.lat]
               /\ pc' = "make_message" /\ UNCHANGED result
    /\ UNCHANGED <<argv, mgs, utm, calls, stdout, stderr, status, trail>>

\* make_message: UTMCoord::from(&ll), whose unwrap()s panic when proj fails,
\* then MGSCoord::from(&utm) and the format!()
MakeMessage ==
    /\ pc = "make_message"
    /\ \/ /\ Panic("called Result::unwrap() on an Err value")
          /\ calls' = Append(calls, "ll_to_utm")
          /\ UNCHANGED result
       \/ \E xy \in ProjUtms :
            /\ result' = make_message(ll, xy)
            /\ calls' = calls \o <<"ll_to_utm", "utm_to_mgs">>
            /\ pc' = "report"
            /\ UNCHANGED <<stderr, status>>
    /\ UNCHANGED <<argv, mgs, utm, ll, stdout, trail>>

\* mutant: an error is printed to standard output
MainReport_ErrToStdout ==
    /\ pc = "report"
    /\ pc' = "done"
    /\ IF result.t = "ok"
       THEN stdout' = Append(stdout, result.text) /\ status' = 0 /\ UNCHANGED stderr
       ELSE stdout' = Append(stdout, result.msg) /\ status' = 1 /\ UNCHANGED stderr
    /\ UNCHANGED <<argv, mgs, utm, ll, result, calls, trail>>

\* main: match message
MainReport ==
    /\ pc = "report"
    /\ pc' = "done"
    /\ IF result.t = "ok"
       THEN stdout' = Append(stdout, result.text) /\ status' = 0 /\ UNCHANGED stderr
       ELSE stderr' = Append(stderr, result.msg) /\ status' = 1 /\ UNCHANGED stdout
    /\ UNCHANGED <<argv, mgs, utm, ll, result, calls, trail>>

Next ==
    \/ Help
    \/ BadArgCount
    \/ FromMgs
    \/ FromMgsDecode
    \/ FromUtm
    \/ FromUtmToLonLat
    \/ FromLl
    \/ MakeMessage
    \/ MainReport

Spec == Init /\ [][Next]_vars

(***************************************************************************)
(* The conversions applied to bounded inputs (SpecFn): trail holds the     *)
(* input followed by the value each conversion returned.                   *)
(***************************************************************************)

\* head and tail digits range over 0..3, the digits between are all d
PatternKey(h, d, t) ==
    [p \in 1..KeyLen |->
        IF p <= KeyVary THEN h[p]
        ELSE IF p > KeyLen - KeyVary THEN t[p - (KeyLen - KeyVary)]
        ELSE d]

ValidKeys ==
    {PatternKey(h, d, t) : h \in [1..KeyVary -> 0..3], d \in 0..3, t \in [1..KeyVary -> 0..3]}
        \cup {ExampleKey, BoundaryKey}

\* keys a [u8; 12] can hold that are no quadkeys
CorruptKeys ==
    {[ExampleKey EXCEPT ![p] = c] : p \in {1, 7, KeyLen}, c \in {4, 9}}

MgsInputs == {[t |-> "mgs", zone |-> z, key |-> k] : z \in {14, 255}, k \in ValidKeys \cup CorruptKeys}

EastingInputs ==
    {F(FalseEasting + c * CellSize + d) : c \in {-GridHalf, -1, 0, GridHalf - 1}, d \in {0, 1, 2500, 4999}}
        \cup {F(490168), F(FalseEasting - GridHalf * CellSize - 2500),
              F(FalseEasting - GridHalf * CellSize - 7500),
              F(FalseEasting + GridHalf * CellSize), F(1000000000), F(-1000000000),
              NaN, PInf, NInf}

NorthingInputs ==
    {F(c * CellSize + d) : c \in {0, 1, 426, GridHalf - 1}, d \in {0, 1, 2500, 4999}}
        \cup {F(2133666), F(GridHalf * CellSize), F(GridHalf * CellSize + 2500),
              F(FalseNorthing - 1000), F(FalseNorthing - 5000), F(FalseNorthing - 7500),
              F(FalseNorthing - 1999 * CellSize), F(1000000000), NaN, PInf, NInf}

UtmInputs ==
    {[t |-> "utm", zone |-> 14, hemi |-> h, x |-> x, y |-> y] :
        h \in {"North", "South"}, x \in EastingInputs, y \in NorthingInputs}

PairInputs == {[t |-> "pair", lon |-> a, lat |-> b] : a \in LonInputs, b \in LatInputs}

FloatInputs == {[t |-> "f64", f |-> f] : f \in LatInputs \cup {F(Deg(-1000)), F(1)}}

FnInputs == MgsInputs \cup UtmInputs \cup PairInputs \cup FloatInputs

Last(s) == s[Len(s)]

Idle ==
    /\ pc = "idle" /\ argv = <<>> /\ mgs = [t |-> "none"] /\ utm = [t |-> "none"]
    /\ ll = [t |-> "none"] /\ result = [t |-> "none"] /\ calls = <<>>
    /\ stdout = <<>> /\ stderr = <<>> /\ status = -1

FnInit == Idle /\ trail \in {<<v>> : v \in FnInputs}

FnKeep == UNCHANGED <<pc, argv, mgs, utm, ll, result, calls, stdout, stderr, status>>

FnUtmToMgs ==
    /\ Len(trail) \in 1..2 /\ Last(trail).t = "utm"
    /\ trail' = Append(trail, UtmToMgs(Last(trail)))
    /\ FnKeep

FnMgsToUtm ==
    /\ Len(trail) \in 1..2 /\ Last(trail).t = "mgs"
    /\ trail' = Append(trail, MgsToUtm(Last(trail)))
    /\ FnKeep

FnNew ==
    /\ Len(trail) = 1 /\ trail[1].t = "pair"
    /\ LET r == LonLatCoord_new(trail[1].lon, trail[1].lat)
       IN trail' = Append(trail, [t |-> IF r.ok THEN "ll" ELSE "err", lon |-> r.lon, lat |-> r.lat])
    /\ FnKeep

FnZone ==
    /\ Len(trail) = 2 /\ trail[2].t = "ll"
    /\ LET r == lonlat_to_utm_zone(trail[2].lon, trail[2].lat)
       IN trail' = Append(trail, [t |-> "zone", zone |-> r.zone, hemi |-> r.hemi])
    /\ FnKeep

FnFromLat ==
    /\ Len(trail) = 1 /\ trail[1].t = "f64"
    /\ trail' = Append(trail, [t |-> "hemi", hemi |-> from_lat(trail[1].f)])
    /\ FnKeep

FnNext == FnUtmToMgs \/ FnMgsToUtm \/ FnNew \/ FnZone \/ FnFromLat

SpecFn == FnInit /\ [][FnNext]_vars

(***************************************************************************)
(* Reference definitions the claims are stated with                        *)
(***************************************************************************)
IsQuadkey(key) == \A p \in 1..KeyLen : key[p] \in 0..3

\* bit k of the integer n
BitOf(n, k) == (n \div 2^k) % 2

\* the integer whose bit (11 - z) is set exactly when digit z is in the set ds
RECURSIVE KeyBits(_, _, _)
KeyBits(key, ds, p) ==
    IF p > KeyLen THEN 0
    ELSE (IF key[p] \in ds THEN 2^(KeyLen - p) ELSE 0) + KeyBits(key, ds, p + 1)

Abs(n) == IF n < 0 THEN -n ELSE n

\* metres east of the zone's central meridian, and metres north of the equator
OffsetEast(u) == u.x.v - FalseEasting
OffsetNorth(u) == IF u.hemi = "South" THEN u.y.v - FalseNorthing ELSE u.y.v

IsFiniteUtm(u) == u.x.k = "fin" /\ u.y.k = "fin"

\* the point is inside the zone's 4096 x 4096 grid of 5 km cells
InGrid(u) ==
    /\ IsFiniteUtm(u)
    /\ 0 <= OffsetEast(u) + GridHalf * CellSize
    /\ OffsetEast(u) + GridHalf * CellSize < 2 * GridHalf * CellSize
    /\ 0 <= GridHalf * CellSize - OffsetNorth(u)
    /\ GridHalf * CellSize - OffsetNorth(u) < 2 * GridHalf * CellSize

\* the key of the reference encoder: ix = floor(x + 2048), iy = floor(2048 - y)
FloorKey(u) ==
    LET ix == (OffsetEast(u) + GridHalf * CellSize) \div CellSize
        iy == (GridHalf * CellSize - OffsetNorth(u)) \div CellSize
    IN [p \in 1..KeyLen |-> BitOf(ix, KeyLen - p) + 2 * BitOf(iy, KeyLen - p)]

\* x + 2048 and 2048 - y are both in [0, 32768)
InFloorRange(u) ==
    /\ IsFiniteUtm(u)
    /\ 0 <= OffsetEast(u) + GridHalf * CellSize
    /\ OffsetEast(u) + GridHalf * CellSize < (I16Max + 1) * CellSize
    /\ 0 <= GridHalf * CellSize - OffsetNorth(u)
    /\ GridHalf * CellSize - OffsetNorth(u) < (I16Max + 1) * CellSize

ExampleUtm == [t |-> "utm", zone |-> 14, hemi |-> "North", x |-> F(490168), y |-> F(2133666)]

(***************************************************************************)
(* Claims on the conversions (SpecFn)                                      *)
(***************************************************************************)
\* C1: MGS -> UTM -> MGS returns the original zone and the original 12 digits
\* for every key of 12 digits in 0..3.
C1_MgsUtmMgsExact ==
    (Len(trail) = 3 /\ trail[1].t = "mgs" /\ IsQuadkey(trail[1].key))
        => /\ trail[2].t = "utm"
           /\ trail[3].t = "mgs"
           /\ trail[3].zone = trail[1].zone
           /\ trail[3].key = trail[1].key

C1_Witness ==
    /\ Len(trail) = 3 /\ trail[1].t = "mgs"
    /\ trail[1].key = BoundaryKey /\ trail[2].t = "utm" /\ trail[2].hemi = "South"
    /\ trail[3].key = BoundaryKey

\* C2: for a UTM point inside the zone's grid, UTM -> MGS -> UTM returns an
\* easting and a northing each within 2500 m of the original.
C2_WithinHalfCell ==
    (Len(trail) = 3 /\ trail[1].t = "utm" /\ InGrid(trail[1]))
        => /\ trail[3].t = "utm"
           /\ Abs(trail[3].x.v - trail[1].x.v) <= 2500
           /\ Abs(trail[3].y.v - trail[1].y.v) <= 2500

\* C4: the zone lonlat_to_utm_zone returns for a longitude LonLatCoord::new
\* accepted is in 1..60.
C4_ZoneIn1To60 ==
    (Len(trail) = 3 /\ trail[2].t = "ll" /\ trail[3].t = "zone") => trail[3].zone \in 1..60

\* C8: from_lat classifies 0.0, NaN, +infinity and -infinity as North and every
\* negative finite value as South.
C8_FromLatClasses ==
    (Len(trail) = 2 /\ trail[1].t = "f64")
        => LET f == trail[1].f
               h == trail[2].hemi
           IN /\ h \in {"North", "South"}
              /\ (f = F(0) \/ f = NaN \/ f = PInf \/ f = NInf) => h = "North"
              /\ (f.k = "fin" /\ f.v < 0) => h = "South"

\* C9 as stated: for every UTM coordinate the key is that of the reference
\* encoder with ix = floor(x + 2048) and iy = floor(2048 - y), the zone is copied.
C9_FloorKeyEverywhere ==
    (Len(trail) >= 2 /\ trail[1].t = "utm" /\ IsFiniteUtm(trail[1]))
        => /\ trail[2].zone = trail[1].zone
           /\ trail[2].key = FloorKey(trail[1])

\* C9 amended: the zone is copied and every digit is in 0..3 for every UTM
\* coordinate; the key is the reference encoder's whenever x + 2048 and
\* 2048 - y are in [0, 32768), which covers every point inside the grid;
\* UTM 14N 490168 2133666 encodes to 14/033113131312.
C9_FloorKeyInRange ==
    (Len(trail) >= 2 /\ trail[1].t = "utm")
        => /\ trail[2].t = "mgs"
           /\ trail[2].zone = trail[1].zone
           /\ IsQuadkey(trail[2].key)
           /\ InFloorRange(trail[1]) => trail[2].key = FloorKey(trail[1])
           /\ trail[1] = ExampleUtm => trail[2].key = ExampleKey

C9_Witness ==
    /\ Len(trail) >= 2 /\ trail[1].t = "utm" /\ InGrid(trail[1])
    /\ trail[1].hemi = "South" /\ trail[1].y = F(FalseNorthing - 7500)
    /\ trail[1].x = F(FalseEasting - 1)
    /\ trail[2].key = FloorKey(trail[1])

IsZoneOf(z, lon) ==
    /\ lon.k = "fin"
    /\ Deg(6) * (z - 1) <= lon.v + Deg(180)
    /\ lon.v + Deg(180) < Deg(6) * z

Range(s) == {s[i] : i \in 1..Len(s)}

\* C3: whenever a message is produced, the zone of its UTM coordinate and the
\* zone of its MGS coordinate are the zone of the longitude of its geographic
\* point, whatever zone the input carried.
C3_CanonicalZone ==
    result.t = "ok"
        => /\ result.ll = ll
           /\ IsZoneOf(result.utm.zone, result.ll.lon)
           /\ result.mgs.zone = result.utm.zone
           /\ result.text.utm_zone = result.utm.zone
           /\ result.text.mgs_zone = result.utm.zone

C3_Witness ==
    /\ pc = "done" /\ Len(argv) = 1 /\ mgs.t = "mgs" /\ mgs.zone = 47 /\ utm.zone = 47
    /\ stdout # <<>> /\ stdout[1].utm_zone = 48 /\ stdout[1].mgs_zone = 48

\* C5: an MGS input whose key has the wrong length or a character outside
\* 0..3 ends in a validation error: it never panics and never reaches the
\* MGS -> UTM decoder or a later conversion.
C5_BadKeyIsValidationError ==
    \A z \in ZoneTexts, k \in BadKeyTexts :
        argv = <<Str(z \o <<"/">> \o k)>>
            => /\ pc \in {"main", "report", "done"}
               /\ "mgs_to_utm" \notin Range(calls)
               /\ pc # "main" => result.t = "err"

\* C6: LonLatCoord::new succeeds exactly when -180 <= lon <= 180 and
\* -90 <= lat <= 90; on an out-of-range pair from_ll returns the error and no
\* conversion is performed.
C6_NewExactlyInRange ==
    (pc # "main" /\ Len(argv) = 2 /\ argv[1].a = "num" /\ argv[2].a = "num")
        => LET lon == argv[1].f
               lat == argv[2].f
               inRange == /\ lon.k = "fin" /\ Deg(-180) <= lon.v /\ lon.v <= Deg(180)
                          /\ lat.k = "fin" /\ Deg(-90) <= lat.v /\ lat.v <= Deg(90)
           IN IF inRange
              THEN ll = [t |-> "ll", lon |-> lon, lat |-> lat] /\ result.t # "err"
              ELSE /\ ll = None /\ utm = None /\ mgs = None
                   /\ result.t = "err" /\ calls = <<>>
                   /\ pc \in {"report", "done"}

C6_Witness ==
    /\ pc = "done" /\ Len(argv) = 2 /\ argv[1] = Num(F(Deg(200))) /\ argv[2] = Num(F(0))
    /\ status = 1 /\ calls = <<>> /\ ll = None /\ stdout = <<>>

\* C7: standard output holds nothing until every conversion of the chain has
\* succeeded, and then exactly the one result block; a run that ends in an
\* error or a panic has written nothing to it; no conversion runs twice.
C7_NoPartialOutput ==
    /\ stdout # <<>>
        => /\ pc = "done" /\ status = 0 /\ result.t = "ok"
           /\ stdout = <<result.text>>
           /\ Len(calls) >= 2
           /\ SubSeq(calls, Len(calls) - 1, Len(calls)) = <<"ll_to_utm", "utm_to_mgs">>
    /\ (pc = "panicked" \/ result.t = "err" \/ status \notin {-1, 0}) => stdout = <<>>
    /\ \A i, j \in 1..Len(calls) : i # j => calls[i] # calls[j]

C7_Witness ==
    /\ pc = "panicked" /\ status = 101 /\ stdout = <<>>
    /\ calls = <<"from_u8_and_str", "mgs_to_utm", "utm_to_ll", "ll_to_utm">>

====
